---- MODULE Spec2Model ----
(***************************************************************************)
(* A model of the audio-reactive point-field renderer of sketch.js.        *)
(*                                                                         *)
(* sketch.js holds two sketches: the mask variant (lines 1-208, regions    *)
(* from mask images) and the colour variant (lines 210-545, regions from   *)
(* the sampled colour, with a figure overlay).  The colour variant is the  *)
(* specification Spec, the mask variant is SpecMask, and the field         *)
(* builders of setup() are SpecSetup.                                      *)
(*                                                                         *)
(* Numbers are exact rationals [n |-> numerator, d |-> denominator] in     *)
(* lowest terms: the program's arithmetic is modelled over the reals, not  *)
(* over IEEE doubles.  sin, cos and atan2 are kept symbolic: a displaced   *)
(* coordinate is its base coordinate plus a set of tagged wave terms.      *)
(***************************************************************************)
EXTENDS Integers, Sequences, FiniteSets, TLC

\* ------------------------------------------------------------------------
\* Exact rational arithmetic (JavaScript numbers, taken as reals)
\* ------------------------------------------------------------------------

\* The arithmetic is written as functions, which are applied to values: an
\* operand is evaluated once, however often the body uses it.

Abs(i) == IF i < 0 THEN -i ELSE i

Gcd[a \in Nat, b \in Nat] == IF b = 0 THEN a ELSE Gcd[b, a % b]

Lcm(a, b) == (a \div Gcd[a, b]) * b

\* the rationals n/d
Rational == [n : Int, d : Nat]

\* n/d in lowest terms with a positive denominator
Reduce[n \in Int, d \in Int] ==
  LET s == IF d < 0 THEN -1 ELSE 1
      g == Gcd[Abs(n), Abs(d)]
  IN  [n |-> (s * n) \div g, d |-> (s * d) \div g]

Rat(n, d) == Reduce[n, d]

R(i) == [n |-> i, d |-> 1]

Sum[x \in Rational, y \in Rational] ==
  LET l == Lcm(x.d, y.d)
  IN  Reduce[x.n * (l \div x.d) + y.n * (l \div y.d), l]

RAdd(x, y) == Sum[x, y]

RNeg(x) == Reduce[-x.n, x.d]

RSub(x, y) == Sum[x, RNeg(y)]

Product[x \in Rational, y \in Rational] ==
  LET g1 == Gcd[Abs(x.n), y.d]
      g2 == Gcd[Abs(y.n), x.d]
  IN  Reduce[(x.n \div g1) * (y.n \div g2), (x.d \div g2) * (y.d \div g1)]

RMul(x, y) == Product[x, y]

RDiv(x, y) == Product[x, Reduce[y.d, y.n]]

LessEq[x \in Rational, y \in Rational] ==
  LET l == Lcm(x.d, y.d)
  IN  x.n * (l \div x.d) <= y.n * (l \div y.d)

RLe(x, y) == LessEq[x, y]

RLt(x, y) == LessEq[x, y] /\ ~LessEq[y, x]

\* ------------------------------------------------------------------------
\* p5.js helpers the sketch calls
\* ------------------------------------------------------------------------

\* map(n, start1, stop1, start2, stop2): linear rescale, no clamping
map(n, start1, stop1, start2, stop2) ==
  RAdd(RMul(RDiv(RSub(n, start1), RSub(stop1, start1)), RSub(stop2, start2)),
       start2)

\* constrain(n, low, high) = max(min(n, high), low)
Clamp[n \in Rational, low \in Rational, high \in Rational] ==
  LET m == IF RLe(n, high) THEN n ELSE high
  IN  IF RLe(low, m) THEN m ELSE low

constrain(n, low, high) == Clamp[n, low, high]

\* lerp(start, stop, amt) = amt * (stop - start) + start
lerp(start, stop, amt) == RAdd(RMul(amt, RSub(stop, start)), start)

\* int(x): truncation toward zero
Trunc[x \in Rational] == IF x.n >= 0 THEN x.n \div x.d ELSE -((-x.n) \div x.d)

int(x) == Trunc[x]

\* random(lo, hi) for an outcome u of the generator, 0 <= u < 1
random(u, lo, hi) == RAdd(RMul(u, RSub(hi, lo)), lo)

\* ------------------------------------------------------------------------
\* Audio Feature Extractor: the per-frame locals of draw()
\* ------------------------------------------------------------------------

\* the mapping without its constrain: map() alone extrapolates
EnergyUnclamped(level) == map(level, R(0), Rat(2, 10), Rat(8, 10), R(4))

\* energy = constrain(map(level, 0, 0.2, 0.8, 4.0), 0.8, 4.0)
Energy(level) ==
  constrain(map(level, R(0), Rat(2, 10), Rat(8, 10), R(4)), Rat(8, 10), R(4))

\* a normalisation over 256 steps instead of 255
BandAmountBy256(v) == map(v, R(0), R(256), R(0), R(1))

\* bassAmount = map(bass, 0, 255, 0, 1), and the same for mid and treble
BandAmount(v) == map(v, R(0), R(255), R(0), R(1))

\* totalEnergy = (bassAmount + midAmount + trebleAmount) / 3
TotalEnergy(bassAmount, midAmount, trebleAmount) ==
  RDiv(RAdd(RAdd(bassAmount, midAmount), trebleAmount), R(3))

\* the mapping applied whatever isHighEnergy says
ExtremeMultiplierAlways(totalEnergy) ==
  map(totalEnergy, Rat(7, 10), R(1), R(1), Rat(5, 2))

\* isHighEnergy = totalEnergy > 0.7
IsHighEnergy(totalEnergy) == RLt(Rat(7, 10), totalEnergy)

\* extremeMultiplier = isHighEnergy ? map(totalEnergy, 0.7, 1.0, 1.0, 2.5) : 1.0
ExtremeMultiplier(totalEnergy) ==
  IF IsHighEnergy(totalEnergy)
  THEN map(totalEnergy, Rat(7, 10), R(1), R(1), Rat(5, 2))
  ELSE R(1)

\* a time step without its base term
TimeStepNoBase(bassAmount) == RMul(bassAmount, Rat(1, 10))

\* timeOffset += 0.05 + bassAmount * 0.1
TimeStep(bassAmount) == RAdd(Rat(5, 100), RMul(bassAmount, Rat(1, 10)))

\* ------------------------------------------------------------------------
\* Region Classifier of the colour variant
\* ------------------------------------------------------------------------

\* c = <<r, g, b, a>>, channels 0..255; brightness = (r + g + b) / 3

\* r > 150 && g > 80 && g < 180 && b < 120
WarmRule(c) == c[1] > 150 /\ c[2] > 80 /\ c[2] < 180 /\ c[3] < 120

\* b > g && b > r
BlueRule(c) == c[3] > c[2] /\ c[3] > c[1]

\* brightness < 80
DarkRule(c) == c[1] + c[2] + c[3] < 3 * 80

\* r > 80 && g > 60 && b > 40 && r > b
EarthRule(c) == c[1] > 80 /\ c[2] > 60 /\ c[3] > 40 /\ c[1] > c[3]

\* brightness > 180
BrightRule(c) == c[1] + c[2] + c[3] > 3 * 180

\* the rules with the brightness test moved ahead of the blue test
getColorTypeDarkFirst(c) ==
  IF WarmRule(c) THEN "warm"
  ELSE IF DarkRule(c) THEN "dark"
  ELSE IF BlueRule(c) THEN "blue"
  ELSE IF EarthRule(c) THEN "earth"
  ELSE IF BrightRule(c) THEN "bright"
  ELSE "neutral"

getColorType(c) ==
  IF WarmRule(c) THEN "warm"
  ELSE IF BlueRule(c) THEN "blue"
  ELSE IF DarkRule(c) THEN "dark"
  ELSE IF EarthRule(c) THEN "earth"
  ELSE IF BrightRule(c) THEN "bright"
  ELSE "neutral"

\* ------------------------------------------------------------------------
\* Motion/Color Resolver of the colour variant
\* ------------------------------------------------------------------------

\* One summand of a displaced coordinate:  gain * fn(k * p.coord + w * timeOffset).
\* fn is "sin" or "cos"; "cosAngle"/"sinAngle" are cos/sin of
\* atan2(p.y - centerY, p.x - centerX); "one" is a constant summand.
\* band names the audio feature the gain is made of.
Term(fn, coord, k, w, band, gain) ==
  [fn |-> fn, coord |-> coord, k |-> k, w |-> w, band |-> band, gain |-> gain]

\* (r + g + b) / 3 of a colour
Brightness(c) == Rat(c[1] + c[2] + c[3], 3)

\* the colour handed to fill(): lines 446-459
ShiftedColor(c, trebleAmount) ==
  IF RLt(Rat(15, 100), trebleAmount)
  THEN LET colorShift ==
             constrain(map(trebleAmount, Rat(15, 100), R(1), R(0), R(1)),
                       R(0), R(1))
           deep == RLt(Rat(47, 100), colorShift)
           targetR == R(255)
           targetG == IF deep THEN R(0) ELSE R(140)
           targetB == IF deep THEN R(0) ELSE R(50)
       IN  <<lerp(R(c[1]), targetR, colorShift),
             lerp(R(c[2]), targetG, colorShift),
             lerp(R(c[3]), targetB, colorShift)>>
  ELSE <<R(c[1]), R(c[2]), R(c[3])>>

\* a dispersion amount of 150 per unit of multiplier
DispersionAmountScaled(extremeMultiplier) == RMul(extremeMultiplier, R(150))

\* dispersionAmount = map(extremeMultiplier, 1.0, 2.5, 0, 150)
DispersionAmount(extremeMultiplier) ==
  map(extremeMultiplier, R(1), Rat(5, 2), R(0), R(150))

\* a smoothing step of one half
EaseHalf(current, target) == lerp(current, target, Rat(1, 2))

\* p.currentDispersionX = lerp(p.currentDispersionX, targetDispersionX, 0.1)
Ease(current, target) == lerp(current, target, Rat(1, 10))

\* the switch on p.colorType: the wave terms of finalX and finalY, and size
Motion(p, energy, bassAmount, midAmount, trebleAmount) ==
  LET baseSize == map(Brightness(p.c), R(0), R(255), R(2), R(5))
      one == R(1)
  IN  CASE p.colorType = "warm" ->
             [tx |-> {Term("sin", "y", Rat(2, 100), Rat(3, 2), "treble",
                           RMul(trebleAmount, R(20)))},
              ty |-> {Term("cos", "x", Rat(15, 1000), R(1), "treble",
                           RMul(trebleAmount, R(15))),
                      Term("one", "none", R(0), R(0), "bass",
                           RNeg(RMul(bassAmount, R(10))))},
              size |-> RMul(baseSize, RAdd(one, trebleAmount))]
        [] p.colorType = "blue" ->
             [tx |-> {Term("sin", "y", Rat(3, 100), R(2), "mid",
                           RMul(midAmount, R(25)))},
              ty |-> {Term("cos", "x", Rat(2, 100), Rat(3, 2), "mid",
                           RMul(midAmount, R(12)))},
              size |-> RMul(baseSize, RAdd(one, midAmount))]
        [] p.colorType = "dark" ->
             [tx |-> {Term("sin", "y", Rat(4, 100), R(2), "bass",
                           RMul(bassAmount, R(15)))},
              ty |-> {Term("cos", "x", Rat(4, 100), R(2), "bass",
                           RMul(bassAmount, R(15)))},
              size |-> RMul(baseSize,
                            RAdd(one, RMul(bassAmount, Rat(13, 10))))]
        [] p.colorType = "earth" ->
             [tx |-> {Term("sin", "y", Rat(15, 1000), R(1), "bass",
                           RMul(bassAmount, R(18)))},
              ty |-> {Term("cos", "x", Rat(1, 100), Rat(8, 10), "bass",
                           RMul(bassAmount, R(10)))},
              size |-> RMul(baseSize,
                            RAdd(one, RMul(bassAmount, Rat(6, 10))))]
        [] p.colorType = "bright" ->
             [tx |-> {Term("cosAngle", "xy", R(0), R(0), "treble",
                           RMul(trebleAmount, R(12)))},
              ty |-> {Term("sinAngle", "xy", R(0), R(0), "treble",
                           RMul(trebleAmount, R(12)))},
              size |-> RMul(baseSize,
                            RAdd(one, RMul(trebleAmount, Rat(8, 10))))]
        [] OTHER ->
             [tx |-> {Term("sin", "x", Rat(3, 100), R(2), "energy",
                           RMul(energy, R(4)))},
              ty |-> {Term("cos", "y", Rat(3, 100), R(2), "energy",
                           RMul(energy, R(3)))},
              size |-> RMul(baseSize,
                            RAdd(one, RMul(energy, Rat(3, 10))))]

\* drawDot(p, energy, bassAmount, midAmount, trebleAmount, timeOffset,
\* extremeMultiplier) with ux, uy the two outcomes of random():
\* p is the point after the call, call the ellipse it draws, with the time and
\* the multiplier the call was given.
drawDot(p, energy, bassAmount, midAmount, trebleAmount, timeOffset, extremeMultiplier, ux, uy) ==
  LET dispersionAmount == DispersionAmount(extremeMultiplier)
      targetDispersionX == random(ux, RNeg(dispersionAmount), dispersionAmount)
      targetDispersionY == random(uy, RNeg(dispersionAmount), dispersionAmount)
      q == [p EXCEPT
              !.currentDispersionX = Ease(p.currentDispersionX, targetDispersionX),
              !.currentDispersionY = Ease(p.currentDispersionY, targetDispersionY)]
      m == Motion(q, energy, bassAmount, midAmount, trebleAmount)
  IN  [p |-> q,
       call |-> [op |-> "ellipse", time |-> timeOffset,
                 extremeMultiplier |-> extremeMultiplier,
                 finalX |-> [base |-> q.x, terms |-> m.tx,
                             noise |-> q.currentDispersionX],
                 finalY |-> [base |-> q.y, terms |-> m.ty,
                             noise |-> q.currentDispersionY],
                 size |-> m.size,
                 fill |-> ShiftedColor(q.c, trebleAmount)]]

\* drawGuyOverlay's per-frame locals: lines 385-398
\* scaleAmount = baseScale + audioScale + pulse, pulse = sin(timeOffset*2)*0.03*energy
AudioScale(bassAmount, midAmount, trebleAmount) ==
  RAdd(RAdd(RMul(bassAmount, Rat(2, 10)), RMul(midAmount, Rat(12, 100))),
       RMul(trebleAmount, Rat(8, 100)))

DissolveAmount(trebleAmount) ==
  IF RLt(Rat(55, 100), trebleAmount)
  THEN constrain(map(trebleAmount, Rat(55, 100), R(1), R(0), R(1)), R(0), R(1))
  ELSE R(0)

\* an overlay that never amplifies
OverlayMultiplierOff(dissolveAmount) == R(1)

\* the multiplier drawGuyOverlay hands to drawDot: line 429
OverlayMultiplier(dissolveAmount) ==
  IF RLt(R(0), dissolveAmount)
  THEN map(dissolveAmount, R(0), R(1), R(1), Rat(5, 2))
  ELSE R(1)

\* posX / posY of transformedDot: the stored point scaled by scaleAmount and
\* rotated by rotation = sin(timeOffset) * bassAmount * 0.05 about the centre
\* of guyImg, moved to the centre of the canvas (kept symbolic)
Transformed(axis, p, gw, gh, w, h, energy, bassAmount, midAmount, trebleAmount) ==
  [axis |-> axis, x |-> p.x, y |-> p.y,
   pivot |-> <<Rat(gw, 2), Rat(gh, 2)>>, centre |-> <<Rat(w, 2), Rat(h, 2)>>,
   scale |-> RAdd(Rat(3, 10), AudioScale(bassAmount, midAmount, trebleAmount)),
   pulse |-> RMul(Rat(3, 100), energy),
   rotation |-> RMul(bassAmount, Rat(5, 100))]

\* one iteration of the loop of drawGuyOverlay: lines 401-435
\* an overlay loop that resolves the stored point itself, not a copy of it
drawGuyDotInPlace(p, gw, gh, w, h, energy, bassAmount, midAmount, trebleAmount, timeOffset, ux, uy) ==
  drawDot([p EXCEPT
             !.x = Transformed("x", p, gw, gh, w, h, energy, bassAmount, midAmount, trebleAmount),
             !.y = Transformed("y", p, gw, gh, w, h, energy, bassAmount, midAmount, trebleAmount)],
          energy, bassAmount, midAmount, trebleAmount, timeOffset,
          OverlayMultiplier(DissolveAmount(trebleAmount)), ux, uy)

drawGuyDot(p, gw, gh, w, h, energy, bassAmount, midAmount, trebleAmount, timeOffset, ux, uy) ==
  LET transformedDot ==
        [x |-> Transformed("x", p, gw, gh, w, h, energy, bassAmount, midAmount,
                           trebleAmount),
         y |-> Transformed("y", p, gw, gh, w, h, energy, bassAmount, midAmount,
                           trebleAmount),
         c |-> p.c,
         colorType |-> p.colorType,
         currentDispersionX |-> p.currentDispersionX,
         currentDispersionY |-> p.currentDispersionY]
      d == drawDot(transformedDot, energy, bassAmount, midAmount, trebleAmount,
                   timeOffset,
                   OverlayMultiplier(DissolveAmount(trebleAmount)), ux, uy)
  IN  [p |-> [p EXCEPT !.currentDispersionX = d.p.currentDispersionX,
                       !.currentDispersionY = d.p.currentDispersionY],
       call |-> d.call]

\* ------------------------------------------------------------------------
\* Motion/Color Resolver of the sketch listed in README.md
\* ------------------------------------------------------------------------

\* the colour handed to fill(): README.md lines 366-386
ShiftedColorListing(c, trebleAmount) ==
  IF RLt(Rat(15, 100), trebleAmount)
  THEN LET colorShift ==
             constrain(map(trebleAmount, Rat(15, 100), R(1), R(0), R(1)),
                       R(0), R(1))
           midShift == map(colorShift, Rat(235, 1000), Rat(47, 100), R(0), R(1))
           highShift == map(colorShift, Rat(47, 100), R(1), R(0), R(1))
           targetR == R(255)
           targetG == IF RLt(colorShift, Rat(235, 1000)) THEN R(140)
                      ELSE IF RLt(colorShift, Rat(47, 100))
                           THEN lerp(R(140), R(80), midShift)
                           ELSE lerp(R(80), R(0), highShift)
           targetB == IF RLt(colorShift, Rat(235, 1000)) THEN R(50)
                      ELSE IF RLt(colorShift, Rat(47, 100))
                           THEN lerp(R(50), R(10), midShift)
                           ELSE lerp(R(10), R(0), highShift)
       IN  <<lerp(R(c[1]), targetR, colorShift),
             lerp(R(c[2]), targetG, colorShift),
             lerp(R(c[3]), targetB, colorShift)>>
  ELSE <<R(c[1]), R(c[2]), R(c[3])>>

\* the switch on p.colorType of the listing: every wave term and every size
\* carries extremeMultiplier; jitter is the width of the warm branch's
\* random(-energy, energy) * 0.3 * extremeMultiplier
MotionListing(p, energy, bassAmount, midAmount, trebleAmount, extremeMultiplier) ==
  LET baseSize == map(Brightness(p.c), R(0), R(255), R(2), R(5))
      one == R(1)
      em == extremeMultiplier
      Sized(k, amount) ==
        RMul(RMul(RMul(baseSize, RAdd(one, RMul(energy, k))), RAdd(one, amount)), em)
  IN  CASE p.colorType = "warm" ->
             [tx |-> {Term("sin", "y", Rat(2, 100), Rat(3, 2), "treble",
                           RMul(RMul(trebleAmount, R(20)), em))},
              ty |-> {Term("cos", "x", Rat(15, 1000), R(1), "treble",
                           RMul(RMul(trebleAmount, R(15)), em)),
                      Term("one", "none", R(0), R(0), "bass",
                           RNeg(RMul(bassAmount, R(10))))},
              jitter |-> RMul(Rat(3, 10), em),
              size |-> Sized(Rat(3, 10), RMul(trebleAmount, Rat(7, 10)))]
        [] p.colorType = "blue" ->
             [tx |-> {Term("sin", "y", Rat(3, 100), R(2), "mid",
                           RMul(RMul(midAmount, R(25)), em))},
              ty |-> {Term("cos", "x", Rat(2, 100), Rat(3, 2), "mid",
                           RMul(RMul(midAmount, R(12)), em)),
                      Term("one", "none", R(0), R(0), "bass",
                           RMul(bassAmount, R(8)))},
              jitter |-> R(0),
              size |-> Sized(Rat(3, 10), RMul(midAmount, Rat(8, 10)))]
        [] p.colorType = "dark" ->
             [tx |-> {Term("sin", "y", Rat(4, 100), R(2), "bass",
                           RMul(RMul(bassAmount, R(15)), em)),
                      Term("sin", "none", R(0), R(3), "treble",
                           RMul(RMul(trebleAmount, R(10)), em))},
              ty |-> {Term("cos", "x", Rat(4, 100), R(2), "bass",
                           RMul(RMul(bassAmount, R(15)), em)),
                      Term("cos", "none", R(0), R(3), "treble",
                           RMul(RMul(trebleAmount, R(10)), em))},
              jitter |-> R(0),
              size |-> RMul(RMul(RMul(map(Brightness(p.c), R(0), R(255), Rat(5, 2), R(6)),
                                      RAdd(one, RMul(energy, Rat(1, 2)))),
                                 RAdd(RAdd(one, RMul(bassAmount, Rat(13, 10))),
                                      RMul(trebleAmount, Rat(6, 10)))),
                            em)]
        [] p.colorType = "earth" ->
             [tx |-> {Term("sin", "y", Rat(15, 1000), R(1), "bass",
                           RMul(RMul(bassAmount, R(18)), em))},
              ty |-> {Term("cos", "x", Rat(1, 100), Rat(8, 10), "bass",
                           RMul(RMul(bassAmount, R(10)), em))},
              jitter |-> R(0),
              size |-> Sized(Rat(3, 10), RMul(bassAmount, Rat(6, 10)))]
        [] p.colorType = "bright" ->
             [tx |-> {Term("cosAngle", "xy", R(0), R(0), "treble",
                           RMul(RMul(trebleAmount, R(12)), em)),
                      Term("sin", "none", R(0), R(2), "mid",
                           RMul(RMul(midAmount, R(5)), em))},
              ty |-> {Term("sinAngle", "xy", R(0), R(0), "treble",
                           RMul(RMul(trebleAmount, R(12)), em)),
                      Term("cos", "none", R(0), R(2), "mid",
                           RMul(RMul(midAmount, R(5)), em))},
              jitter |-> R(0),
              size |-> Sized(Rat(3, 10), trebleAmount)]
        [] OTHER ->
             [tx |-> {Term("sin", "y", Rat(1, 100), R(1), "mid",
                           RMul(RMul(midAmount, R(10)), em))},
              ty |-> {Term("cos", "x", Rat(1, 100), R(1), "bass",
                           RMul(RMul(bassAmount, R(8)), em))},
              jitter |-> R(0),
              size |-> Sized(Rat(25, 100), R(0))]

\* drawDot of the listing, with ux, uy the outcomes of the two random() calls
\* for the dispersion targets and vx, vy those of the warm branch's two
drawDotListing(p, energy, bassAmount, midAmount, trebleAmount, timeOffset, extremeMultiplier, ux, uy, vx, vy) ==
  LET dispersionAmount == DispersionAmount(extremeMultiplier)
      targetDispersionX == random(ux, RNeg(dispersionAmount), dispersionAmount)
      targetDispersionY == random(uy, RNeg(dispersionAmount), dispersionAmount)
      q == [p EXCEPT
              !.currentDispersionX = Ease(p.currentDispersionX, targetDispersionX),
              !.currentDispersionY = Ease(p.currentDispersionY, targetDispersionY)]
      m == MotionListing(q, energy, bassAmount, midAmount, trebleAmount, extremeMultiplier)
  IN  [p |-> q,
       call |-> [op |-> "ellipse", time |-> timeOffset,
                 extremeMultiplier |-> extremeMultiplier,
                 finalX |-> [base |-> q.x, terms |-> m.tx,
                             noise |-> RAdd(RMul(random(vx, RNeg(energy), energy), m.jitter),
                                            q.currentDispersionX)],
                 finalY |-> [base |-> q.y, terms |-> m.ty,
                             noise |-> RAdd(RMul(random(vy, RNeg(energy), energy), m.jitter),
                                            q.currentDispersionY)],
                 size |-> m.size,
                 fill |-> ShiftedColorListing(q.c, trebleAmount) \o <<R(180)>>]]

\* one iteration of the loop of the listing's drawGuyOverlay: README.md
\* lines 329-359
drawGuyDotListing(p, gw, gh, w, h, energy, bassAmount, midAmount, trebleAmount, timeOffset, ux, uy, vx, vy) ==
  LET transformedDot ==
        [x |-> Transformed("x", p, gw, gh, w, h, energy, bassAmount, midAmount,
                           trebleAmount),
         y |-> Transformed("y", p, gw, gh, w, h, energy, bassAmount, midAmount,
                           trebleAmount),
         c |-> p.c,
         colorType |-> p.colorType,
         currentDispersionX |-> p.currentDispersionX,
         currentDispersionY |-> p.currentDispersionY]
      d == drawDotListing(transformedDot, energy, bassAmount, midAmount, trebleAmount,
                          timeOffset,
                          OverlayMultiplier(DissolveAmount(trebleAmount)), ux, uy, vx, vy)
  IN  [p |-> [p EXCEPT !.currentDispersionX = d.p.currentDispersionX,
                       !.currentDispersionY = d.p.currentDispersionY],
       call |-> d.call]

\* ------------------------------------------------------------------------
\* Images and the Point Field Builder of setup()
\* ------------------------------------------------------------------------

spacing == 3
guySpacing == 3

\* img.get(x, y): the pixel, transparent black outside the image
get(img, x, y) ==
  IF x >= 0 /\ x < img.width /\ y >= 0 /\ y < img.height
  THEN img.pix[<<x, y>>]
  ELSE <<0, 0, 0, 0>>

\* alpha(c)
alpha(c) == c[4]

\* the values of v in  for (let v = from; v < limit; v += step)
LoopFrom[from \in Nat, limit \in Nat, step \in Nat] ==
  IF from < limit THEN <<from>> \o LoopFrom[from + step, limit, step] ELSE <<>>

\* the loop with  v <= limit  for its test
LoopValuesInclusive(from, limit, step) == LoopFrom[from, limit + 1, step]

LoopValues(from, limit, step) == LoopFrom[from, limit, step]

\* the grid cells in loop order: x outer, y inner
Cells(w, h, step) ==
  LET xs == LoopValues(0, w, step)
      ys == LoopValues(0, h, step)
  IN  [i \in 1..(Len(xs) * Len(ys)) |->
         <<xs[((i - 1) \div Len(ys)) + 1], ys[((i - 1) % Len(ys)) + 1]>>]

\* the jittered coordinate without its constrain
JitteredUnclamped(v, u, step, limit) ==
  RAdd(R(v), random(u, Rat(-step, 3), Rat(step, 3)))

\* px = constrain(x + random(-spacing/3, spacing/3), 0, width - 1)
Jittered(v, u, step, limit) ==
  constrain(RAdd(R(v), random(u, Rat(-step, 3), Rat(step, 3))), R(0), R(limit - 1))

\* the body of the base-field loop: lines 262-280
BaseDot(img, cell, u) ==
  LET px == Jittered(cell[1], u[1], spacing, img.width)
      py == Jittered(cell[2], u[2], spacing, img.height)
      c == get(img, int(px), int(py))
  IN  [x |-> px, y |-> py, c |-> c, colorType |-> getColorType(c),
       currentDispersionX |-> R(0), currentDispersionY |-> R(0)]

\* allDots after the loop of lines 259-282; rnd[i] = the two random() outcomes
\* of cell i
BuildBase(img, rnd) ==
  LET cells == Cells(img.width, img.height, spacing)
  IN  [i \in 1..Len(cells) |-> BaseDot(img, cells[i], rnd[i])]

\* where the base-field loop reads baseImg
BaseSamples(img, rnd) ==
  LET cells == Cells(img.width, img.height, spacing)
  IN  {<<int(Jittered(cells[i][1], rnd[i][1], spacing, img.width)),
         int(Jittered(cells[i][2], rnd[i][2], spacing, img.height))>> :
         i \in 1..Len(cells)}

\* an overlay loop body that reads the colour at the jittered position
GuyDotAtJitter(img, cell, u) ==
  LET px == RAdd(R(cell[1]), random(u[1], Rat(-guySpacing, 3), Rat(guySpacing, 3)))
      py == RAdd(R(cell[2]), random(u[2], Rat(-guySpacing, 3), Rat(guySpacing, 3)))
      c == get(img, int(px), int(py))
  IN  [x |-> px, y |-> py, c |-> c, colorType |-> getColorType(c),
       currentDispersionX |-> R(0), currentDispersionY |-> R(0)]

\* the body of the overlay loop for a visible cell: lines 295-306
GuyDot(img, cell, u) ==
  LET c == get(img, cell[1], cell[2])
      px == RAdd(R(cell[1]), random(u[1], Rat(-guySpacing, 3), Rat(guySpacing, 3)))
      py == RAdd(R(cell[2]), random(u[2], Rat(-guySpacing, 3), Rat(guySpacing, 3)))
  IN  [x |-> px, y |-> py, c |-> c, colorType |-> getColorType(c),
       currentDispersionX |-> R(0), currentDispersionY |-> R(0)]

RECURSIVE GuyLoop(_, _, _, _)
GuyLoop(img, cells, rnd, i) ==
  IF i > Len(cells) THEN <<>>
  ELSE (IF alpha(get(img, cells[i][1], cells[i][2])) > 50
        THEN <<GuyDot(img, cells[i], rnd[i])>>
        ELSE <<>>) \o GuyLoop(img, cells, rnd, i + 1)

\* guyDots after the loop of lines 288-309
BuildGuy(img, rnd) ==
  GuyLoop(img, Cells(img.width, img.height, guySpacing), rnd, 1)

\* ------------------------------------------------------------------------
\* The mask variant: region classifier, field builder and resolver
\* ------------------------------------------------------------------------

\* (m.get(x, y)[0] + m.get(x, y)[1] + m.get(x, y)[2]) / 3
MaskBright(m, x, y) == Rat(get(m, x, y)[1] + get(m, x, y)[2] + get(m, x, y)[3], 3)

\* the classifier without its final default
getAreaTypeNoDefault(guy, bridge, sky, water, hills, x, y) ==
  IF RLt(R(100), MaskBright(guy, x, y)) THEN "guy"
  ELSE IF RLt(R(20), MaskBright(bridge, x, y)) THEN "bridge"
  ELSE IF RLt(R(120), MaskBright(sky, x, y)) THEN "sky"
  ELSE IF RLt(R(80), MaskBright(water, x, y)) THEN "water"
  ELSE IF RLt(R(100), MaskBright(hills, x, y)) THEN "hills"
  ELSE "none"

\* getAreaType(x, y) over the five mask images
getAreaType(guy, bridge, sky, water, hills, x, y) ==
  IF RLt(R(100), MaskBright(guy, x, y)) THEN "guy"
  ELSE IF RLt(R(20), MaskBright(bridge, x, y)) THEN "bridge"
  ELSE IF RLt(R(120), MaskBright(sky, x, y)) THEN "sky"
  ELSE IF RLt(R(80), MaskBright(water, x, y)) THEN "water"
  ELSE IF RLt(R(100), MaskBright(hills, x, y)) THEN "hills"
  ELSE "hills"

\* the body of the loop of the mask variant's setup(): lines 51-65
MaskDot(img, guy, bridge, sky, water, hills, cell, u) ==
  LET px == Jittered(cell[1], u[1], spacing, img.width)
      py == Jittered(cell[2], u[2], spacing, img.height)
  IN  [x |-> px, y |-> py, c |-> get(img, int(px), int(py)),
       area |-> getAreaType(guy, bridge, sky, water, hills, int(px), int(py))]

\* allDots after the loop of lines 48-67
BuildMask(img, guy, bridge, sky, water, hills, rnd) ==
  LET cells == Cells(img.width, img.height, spacing)
  IN  [i \in 1..Len(cells) |->
         MaskDot(img, guy, bridge, sky, water, hills, cells[i], rnd[i])]

\* finalX, finalY and size stay unassigned when no branch is taken
Undefined == [undefined |-> TRUE]

\* drawDot of the mask variant: lines 138-196; ux, uy are the outcomes of the
\* two random() calls of the sky branch
drawDotMask(p, energy, bassAmount, midAmount, trebleAmount, timeOffset, ux, uy) ==
  LET baseSize == map(Brightness(p.c), R(0), R(255), R(2), R(5))
      one == R(1)
      loud == RAdd(one, RMul(energy, Rat(3, 10)))
      pos(b, ts, noise) == [base |-> b, terms |-> ts, noise |-> noise]
      m ==
        CASE p.area = "sky" ->
               [finalX |-> pos(p.x,
                   {Term("sin", "y", Rat(2, 100), Rat(3, 2), "treble",
                         RMul(trebleAmount, R(20)))},
                   RMul(random(ux, RNeg(energy), energy), Rat(3, 10))),
                finalY |-> pos(p.y,
                   {Term("cos", "x", Rat(15, 1000), R(1), "treble",
                         RMul(trebleAmount, R(15))),
                    Term("one", "none", R(0), R(0), "bass",
                         RNeg(RMul(bassAmount, R(10))))},
                   RMul(random(uy, RNeg(energy), energy), Rat(3, 10))),
                size |-> RMul(RMul(baseSize, loud),
                              RAdd(one, RMul(trebleAmount, Rat(7, 10))))]
          [] p.area = "water" ->
               [finalX |-> pos(p.x,
                   {Term("sin", "y", Rat(3, 100), R(2), "mid",
                         RMul(midAmount, R(25)))}, R(0)),
                finalY |-> pos(p.y,
                   {Term("cos", "x", Rat(2, 100), Rat(3, 2), "mid",
                         RMul(midAmount, R(12))),
                    Term("one", "none", R(0), R(0), "bass",
                         RMul(bassAmount, R(8)))}, R(0)),
                size |-> RMul(RMul(baseSize, loud),
                              RAdd(one, RMul(midAmount, Rat(8, 10))))]
          [] p.area = "hills" ->
               [finalX |-> pos(p.x,
                   {Term("sin", "y", Rat(15, 1000), R(1), "bass",
                         RMul(bassAmount, R(18)))}, R(0)),
                finalY |-> pos(p.y,
                   {Term("cos", "x", Rat(1, 100), Rat(8, 10), "bass",
                         RMul(bassAmount, R(10)))}, R(0)),
                size |-> RMul(RMul(baseSize, loud),
                              RAdd(one, RMul(bassAmount, Rat(6, 10))))]
          [] p.area = "bridge" ->
               [finalX |-> pos(p.x,
                   {Term("sin", "x", Rat(5, 100), R(3), "energy",
                         RMul(energy, R(3)))}, R(0)),
                finalY |-> pos(p.y,
                   {Term("cos", "y", Rat(5, 100), Rat(5, 2), "energy",
                         RMul(energy, R(2)))}, R(0)),
                size |-> RMul(RMul(baseSize, loud),
                              RAdd(one,
                                   RMul(RAdd(RAdd(bassAmount, midAmount),
                                             trebleAmount), Rat(3, 10))))]
          [] p.area = "guy" ->
               [finalX |-> pos(p.x,
                   {Term("sin", "y", Rat(4, 100), R(2), "bass",
                         RMul(bassAmount, R(12))),
                    Term("sin", "none", R(0), R(3), "treble",
                         RMul(trebleAmount, R(8)))}, R(0)),
                finalY |-> pos(p.y,
                   {Term("cos", "x", Rat(4, 100), R(2), "bass",
                         RMul(bassAmount, R(12))),
                    Term("cos", "none", R(0), R(3), "treble",
                         RMul(trebleAmount, R(8)))}, R(0)),
                size |-> RMul(RMul(map(Brightness(p.c), R(0), R(255),
                                       Rat(5, 2), R(6)),
                                   RAdd(one, RMul(energy, Rat(4, 10)))),
                              RAdd(RAdd(one, RMul(bassAmount, Rat(12, 10))),
                                   RMul(trebleAmount, Rat(5, 10))))]
          [] OTHER ->
               [finalX |-> Undefined, finalY |-> Undefined, size |-> Undefined]
  IN  [op |-> "ellipse", time |-> timeOffset,
       finalX |-> m.finalX, finalY |-> m.finalY, size |-> m.size,
       fill |-> <<R(p.c[1]), R(p.c[2]), R(p.c[3])>>]

\* ------------------------------------------------------------------------
\* Program state
\* ------------------------------------------------------------------------

VARIABLES
  sketch,         \* which sketch of sketch.js runs: "colour" or "mask"
  phase,          \* "preloaded" before setup(), "running" after it
  baseImg, guyImg,                                    \* image assets
  skyMask, waterMask, hillsMask, bridgeMask, guyMask, \* mask assets
  sampled,        \* the pixel coordinates setup() has read from baseImg
  allDots, guyDots,
  song,           \* the p5.SoundFile: playing, looping, paused, volume
  audioStarted,
  timeOffset,
  frame,          \* the locals of the last Active draw(): the audio features
  canvas,         \* the drawing calls of the last draw()
  analyzerCalls,  \* calls made to amp.getLevel, fft.analyze, fft.getEnergy
  currentVolume,  \* the fade-in volume of the README listing's sketch
  guyFace         \* its intro image: size, position and velocity

assets == <<baseImg, guyImg, skyMask, waterMask, hillsMask, bridgeMask, guyMask>>
fields == <<sampled, allDots, guyDots>>
intro == <<currentVolume, guyFace>>
vars == <<sketch, phase, assets, fields, song, audioStarted, timeOffset, frame,
          canvas, analyzerCalls, intro>>

\* ------------------------------------------------------------------------
\* Bounds and inputs
\* ------------------------------------------------------------------------

\* Active frames drawn in a run
MaxFrames == 2
\* largest image side handed to setup()
MaxSide == 4

NoImage == [width |-> 0, height |-> 0, pix |-> <<>>]

\* one snapshot of the analyzer: amp.getLevel() and fft.getEnergy of the bands
AnalyzerFrames ==
  { [level |-> R(0),        bass |-> 0,   mid |-> 0,   treble |-> 0],
    [level |-> Rat(1, 10),  bass |-> 255, mid |-> 26,  treble |-> 255],
    [level |-> Rat(2, 10),  bass |-> 255, mid |-> 25,  treble |-> 255],
    [level |-> Rat(1, 2),   bass |-> 255, mid |-> 255, treble |-> 255],
    [level |-> Rat(1, 20),  bass |-> 0,   mid |-> 255, treble |-> 39],
    [level |-> Rat(1, 100), bass |-> 128, mid |-> 0,   treble |-> 141] }

\* outcomes of the two random() calls setup() makes for a cell (0 <= u < 1)
RandomOutcomes ==
  { <<R(0), Rat(3, 4)>>, <<Rat(3, 4), R(0)>>, <<Rat(1, 2), Rat(1, 2)>> }

\* outcomes of the two random() calls drawDot makes for a point: one low, one
\* high, either way round
FrameOutcomes ==
  { <<R(0), Rat(3, 4)>>, <<Rat(3, 4), R(0)>> }

Keys == {" ", "a"}

\* colours covering every rule of getColorType, alone and overlapping
Palette ==
  << <<200, 120, 60, 255>>,    \* warm (and earth)
     <<30, 60, 120, 255>>,     \* blue
     <<40, 40, 40, 255>>,      \* dark
     <<120, 90, 60, 255>>,     \* earth
     <<230, 230, 230, 255>>,   \* bright
     <<100, 120, 100, 255>>,   \* neutral
     <<10, 20, 60, 255>>,      \* blue and dark
     <<250, 200, 150, 255>>,   \* earth and bright
     <<151, 81, 119, 255>> >>  \* warm, every bound by one

\* a base painting of w x h pixels whose pixels run through the palette
Painting(w, h, shift) ==
  [width |-> w, height |-> h,
   pix |-> [xy \in (0..(w - 1)) \X (0..(h - 1)) |->
              Palette[((xy[1] + 2 * xy[2] + shift) % Len(Palette)) + 1]]]

\* a figure layer of w x h pixels at alpha 51; when cut, the pixels with
\* x + y odd have alpha 50
Figure(w, h, cut) ==
  [width |-> w, height |-> h,
   pix |-> [xy \in (0..(w - 1)) \X (0..(h - 1)) |->
              LET c == Palette[((xy[1] + xy[2]) % 3) + 3]
              IN  <<c[1], c[2], c[3],
                    IF cut /\ (xy[1] + xy[2]) % 2 = 1 THEN 50 ELSE 51>>]]

\* a mask of w x h pixels for a region with brightness threshold t: black,
\* grey exactly at t, (t, t, t + 1) just above t, or "edge": just above t where
\* x + y is even and at t elsewhere
MaskImage(w, h, t, kind) ==
  [width |-> w, height |-> h,
   pix |-> [xy \in (0..(w - 1)) \X (0..(h - 1)) |->
              IF kind = "black" THEN <<0, 0, 0, 255>>
              ELSE IF kind = "above" \/ (kind = "edge" /\ (xy[1] + xy[2]) % 2 = 0)
                   THEN <<t, t, t + 1, 255>>
                   ELSE <<t, t, t, 255>>]]

\* ------------------------------------------------------------------------
\* setup(): lines 242-312 (colour sketch) and 36-70 (mask sketch)
\* ------------------------------------------------------------------------

NoFrame == [none |-> TRUE]

\* the p5.SoundFile after loadSound()
Loaded == [playing |-> FALSE, looping |-> FALSE, paused |-> FALSE, volume |-> R(1)]

\* a global the sketch does not declare
Absent == [absent |-> TRUE]

\* what setup() leaves untouched
Idle0 ==
  /\ currentVolume = Absent
  /\ guyFace = Absent
  /\ song = Loaded
  /\ audioStarted = FALSE
  /\ timeOffset = R(0)
  /\ frame = NoFrame
  /\ canvas = <<>>
  /\ analyzerCalls = 0

NCells(img, step) == Len(Cells(img.width, img.height, step))

\* the state setup() of the colour sketch builds from the assets
SetupResult(base, guy, rb, rg) ==
  /\ sketch = "colour"
  /\ phase = "running"
  /\ baseImg = base /\ guyImg = guy
  /\ skyMask = NoImage /\ waterMask = NoImage /\ hillsMask = NoImage
  /\ bridgeMask = NoImage /\ guyMask = NoImage
  /\ sampled = BaseSamples(base, rb)
  /\ allDots = BuildBase(base, rb)
  /\ guyDots = BuildGuy(guy, rg)

\* the state setup() of the mask sketch builds from the assets
SetupMaskResult(base, guy, bridge, sky, water, hills, rb) ==
  /\ sketch = "mask"
  /\ phase = "running"
  /\ baseImg = base /\ guyImg = NoImage
  /\ skyMask = sky /\ waterMask = water /\ hillsMask = hills
  /\ bridgeMask = bridge /\ guyMask = guy
  /\ sampled = BaseSamples(base, rb)
  /\ allDots = BuildMask(base, guy, bridge, sky, water, hills, rb)
  /\ guyDots = <<>>

\* the assets before setup() runs: sketch, painting, figure or masks
InitSetup ==
  /\ phase = "preloaded"
  /\ sampled = {} /\ allDots = <<>> /\ guyDots = <<>>
  /\ Idle0
  /\ \E w \in 1..MaxSide, h \in 1..MaxSide, shift \in {0, 3} :
       baseImg = Painting(w, h, shift)
  /\ \/ /\ sketch = "colour"
        /\ \E w \in 1..MaxSide, cut \in BOOLEAN : guyImg = Figure(w, 1, cut)
        /\ skyMask = NoImage /\ waterMask = NoImage /\ hillsMask = NoImage
        /\ bridgeMask = NoImage /\ guyMask = NoImage
     \/ /\ sketch = "mask"
        /\ guyImg = NoImage
        /\ \E lit \in {"guy", "bridge", "sky", "water", "hills", "none", "all"} :
             LET w == baseImg.width
                 h == baseImg.height
                 kind(region) == IF lit \in {region, "all"} THEN "edge" ELSE "black"
             IN  /\ guyMask = MaskImage(w, h, 100, kind("guy"))
                 /\ bridgeMask = MaskImage(w, h, 20, kind("bridge"))
                 /\ skyMask = MaskImage(w, h, 120, kind("sky"))
                 /\ waterMask = MaskImage(w, h, 80, kind("water"))
                 /\ hillsMask = MaskImage(w, h, 100, kind("hills"))

\* setup() of the colour sketch
setup ==
  /\ phase = "preloaded"
  /\ sketch = "colour"
  /\ \E rb \in [1..NCells(baseImg, spacing) -> RandomOutcomes],
        rg \in [1..NCells(guyImg, guySpacing) -> RandomOutcomes] :
       /\ sampled' = BaseSamples(baseImg, rb)
       /\ allDots' = allDots \o BuildBase(baseImg, rb)
       /\ guyDots' = guyDots \o BuildGuy(guyImg, rg)
  /\ phase' = "running"
  /\ UNCHANGED <<intro, sketch, assets, song, audioStarted, timeOffset, frame, canvas, analyzerCalls>>

\* setup() of the mask sketch
setupMask ==
  /\ phase = "preloaded"
  /\ sketch = "mask"
  /\ \E rb \in [1..NCells(baseImg, spacing) -> RandomOutcomes] :
       /\ sampled' = BaseSamples(baseImg, rb)
       /\ allDots' = allDots \o BuildMask(baseImg, guyMask, bridgeMask, skyMask, waterMask, hillsMask, rb)
  /\ phase' = "running"
  /\ UNCHANGED <<intro, sketch, assets, guyDots, song, audioStarted, timeOffset, frame, canvas, analyzerCalls>>

NextSetup == setup \/ setupMask

SpecSetup == InitSetup /\ [][NextSetup]_vars

\* ------------------------------------------------------------------------
\* The Frame Driver: draw(), mousePressed(), keyPressed()
\* ------------------------------------------------------------------------

\* a one-pixel painting and figure, a four-pixel row under a one-pixel figure
\* (two base points), or one-pixel masks, after setup()
Init ==
  /\ Idle0
  /\ \/ \E shift \in {0, 2, 4}, u \in {<<R(0), Rat(3, 4)>>} :
          SetupResult(Painting(1, 1, shift), Figure(1, 1, FALSE),
                      [i \in {1} |-> u], [i \in {1} |-> u])
     \/ \E u \in {<<R(0), Rat(3, 4)>>} :
          SetupResult(Painting(4, 1, 0), Figure(1, 1, FALSE),
                      [i \in {1, 2} |-> u], [i \in {1} |-> u])
     \/ \E g, b, s, w, h \in {"at", "above"}, u \in {<<R(0), Rat(3, 4)>>} :
          SetupMaskResult(Painting(1, 1, 2), MaskImage(1, 1, 100, g),
                          MaskImage(1, 1, 20, b), MaskImage(1, 1, 120, s),
                          MaskImage(1, 1, 80, w), MaskImage(1, 1, 100, h),
                          [i \in {1} |-> u])

\* song.loop()
Loop(sf) == [sf EXCEPT !.playing = TRUE, !.looping = TRUE, !.paused = FALSE]

\* song.pause()
Pause(sf) == [sf EXCEPT !.playing = FALSE, !.paused = TRUE]

\* song.setVolume(v)
SetVolume(sf, v) == [sf EXCEPT !.volume = v]

\* text("Click to start the experience", width / 2, height / 2)
Prompt(str) ==
  [op |-> "text", str |-> str, fill |-> 255, size |-> 32,
   x |-> Rat(baseImg.width, 2), y |-> Rat(baseImg.height, 2)]

\* the locals of an Active draw() of the colour sketch: lines 346-366
Features(a) ==
  LET bassAmount == BandAmount(R(a.bass))
      midAmount == BandAmount(R(a.mid))
      trebleAmount == BandAmount(R(a.treble))
      totalEnergy == TotalEnergy(bassAmount, midAmount, trebleAmount)
  IN  [level |-> a.level, bass |-> a.bass, mid |-> a.mid, treble |-> a.treble,
       energy |-> Energy(a.level),
       bassAmount |-> bassAmount, midAmount |-> midAmount,
       trebleAmount |-> trebleAmount,
       totalEnergy |-> totalEnergy,
       extremeMultiplier |-> ExtremeMultiplier(totalEnergy)]

\* the locals of an Active draw() of the mask sketch: lines 112-126
FeaturesMask(a) ==
  [level |-> a.level, bass |-> a.bass, mid |-> a.mid, treble |-> a.treble,
   energy |-> Energy(a.level),
   bassAmount |-> BandAmount(R(a.bass)), midAmount |-> BandAmount(R(a.mid)),
   trebleAmount |-> BandAmount(R(a.treble))]

\* an idle branch that lets the clock run
drawIdleTicking(str) ==
  /\ canvas' = <<Prompt(str)>>
  /\ timeOffset' = RAdd(timeOffset, TimeStep(R(0)))
  /\ UNCHANGED <<intro, sketch, phase, assets, fields, song, audioStarted, frame, analyzerCalls>>

\* the branch of draw() taken while audioStarted is false
drawIdle(str) ==
  /\ canvas' = <<Prompt(str)>>
  /\ UNCHANGED <<intro, sketch, phase, assets, fields, song, audioStarted, timeOffset, frame, analyzerCalls>>

\* draw() of the colour sketch: lines 333-378
draw ==
  /\ phase = "running"
  /\ sketch = "colour"
  /\ IF ~audioStarted
     THEN drawIdle("Click to start the experience")
     ELSE /\ analyzerCalls < 5 * MaxFrames
          /\ \E a \in AnalyzerFrames,
                ra \in [1..Len(allDots) -> FrameOutcomes],
                rg \in [1..Len(guyDots) -> FrameOutcomes] :
               \E f \in {Features(a)} :
               \E t \in {RAdd(timeOffset, TimeStep(f.bassAmount))} :
               \E da \in {[i \in 1..Len(allDots) |->
                            drawDot(allDots[i], f.energy, f.bassAmount, f.midAmount, f.trebleAmount, t, f.extremeMultiplier, ra[i][1], ra[i][2])]} :
               \E dg \in {[i \in 1..Len(guyDots) |->
                            drawGuyDot(guyDots[i], guyImg.width, guyImg.height, baseImg.width, baseImg.height, f.energy, f.bassAmount, f.midAmount, f.trebleAmount, t, rg[i][1], rg[i][2])]} :
                 /\ frame' = f
                 /\ timeOffset' = t
                 /\ allDots' = [i \in 1..Len(allDots) |-> da[i].p]
                 /\ guyDots' = [i \in 1..Len(guyDots) |-> dg[i].p]
                 /\ canvas' = [i \in 1..Len(allDots) |-> da[i].call]
                                \o [i \in 1..Len(guyDots) |-> dg[i].call]
          /\ analyzerCalls' = analyzerCalls + 5
          /\ UNCHANGED <<intro, sketch, phase, assets, sampled, song, audioStarted>>

\* draw() of the mask sketch: lines 99-135
drawMask ==
  /\ phase = "running"
  /\ sketch = "mask"
  /\ IF ~audioStarted
     THEN drawIdle("Click to start the sound")
     ELSE /\ analyzerCalls < 5 * MaxFrames
          /\ \E a \in AnalyzerFrames,
                ra \in [1..Len(allDots) -> FrameOutcomes] :
               \E f \in {FeaturesMask(a)} :
               \E t \in {RAdd(timeOffset, TimeStep(f.bassAmount))} :
                 /\ frame' = f
                 /\ timeOffset' = t
                 /\ canvas' = [i \in 1..Len(allDots) |->
                                 drawDotMask(allDots[i], f.energy, f.bassAmount, f.midAmount, f.trebleAmount, t, ra[i][1], ra[i][2])]
          /\ analyzerCalls' = analyzerCalls + 5
          /\ UNCHANGED <<intro, sketch, phase, assets, fields, song, audioStarted>>

\* a mousePressed() that starts the song and leaves the flag alone
mousePressedNoFlag ==
  /\ phase = "running"
  /\ sketch = "colour"
  /\ song' = IF song.playing THEN Pause(song) ELSE SetVolume(Loop(song), R(1))
  /\ UNCHANGED audioStarted
  /\ UNCHANGED <<intro, sketch, phase, assets, fields, timeOffset, frame, canvas, analyzerCalls>>

\* mousePressed() of the colour sketch: lines 526-534
mousePressed ==
  /\ phase = "running"
  /\ sketch = "colour"
  /\ IF ~audioStarted
     THEN /\ song' = SetVolume(Loop(song), R(1))
          /\ audioStarted' = TRUE
     ELSE /\ song' = IF song.playing THEN Pause(song) ELSE Loop(song)
          /\ UNCHANGED audioStarted
  /\ UNCHANGED <<intro, sketch, phase, assets, fields, timeOffset, frame, canvas, analyzerCalls>>

\* keyPressed() of the colour sketch: lines 537-545
keyPressed ==
  /\ phase = "running"
  /\ sketch = "colour"
  /\ \E key \in Keys :
       IF key = " " /\ ~song.playing
       THEN /\ song' = SetVolume(Loop(song), R(1))
            /\ audioStarted' = TRUE
       ELSE UNCHANGED <<song, audioStarted>>
  /\ UNCHANGED <<intro, sketch, phase, assets, fields, timeOffset, frame, canvas, analyzerCalls>>

\* mousePressed() of the mask sketch: lines 203-208
mousePressedMask ==
  /\ phase = "running"
  /\ sketch = "mask"
  /\ IF ~audioStarted
     THEN /\ song' = Loop(song)
          /\ audioStarted' = TRUE
     ELSE UNCHANGED <<song, audioStarted>>
  /\ UNCHANGED <<intro, sketch, phase, assets, fields, timeOffset, frame, canvas, analyzerCalls>>

Next == draw \/ mousePressed \/ keyPressed \/ drawMask \/ mousePressedMask

Spec == Init /\ [][Next]_vars

\* ------------------------------------------------------------------------
\* The sketch listed in README.md: bouncing intro, fade-in, toggling click
\* ------------------------------------------------------------------------

targetVolume == R(1)
fadeSpeed == Rat(1, 100)

\* song.stop()
Stop(sf) == [sf EXCEPT !.playing = FALSE, !.paused = FALSE]

\* the intro image after one idle frame: moved by its velocity, turned round
\* and held inside the canvas at an edge (50 pixels kept free below it)
Bounce(face, w, h) ==
  LET x == RAdd(face.x, face.velX)
      y == RAdd(face.y, face.velY)
      faceWidth == RMul(R(face.img.width), Rat(1, 2))
      faceHeight == RMul(R(face.img.height), Rat(1, 2))
      hw == RDiv(faceWidth, R(2))
      hh == RDiv(faceHeight, R(2))
      hitX == RLe(RSub(x, hw), R(0)) \/ RLe(R(w), RAdd(x, hw))
      hitY == RLe(RSub(y, hh), R(0)) \/ RLe(R(h), RAdd(RAdd(y, hh), R(50)))
  IN  [img |-> face.img,
       x |-> IF hitX THEN constrain(x, hw, RSub(R(w), hw)) ELSE x,
       y |-> IF hitY THEN constrain(y, hh, RSub(RSub(R(h), hh), R(50))) ELSE y,
       velX |-> IF hitX THEN RNeg(face.velX) ELSE face.velX,
       velY |-> IF hitY THEN RNeg(face.velY) ELSE face.velY]

\* image(guyFaceImg, ...) and text("click here", ...) of the intro screen
IntroScreen(face) ==
  LET faceWidth == RMul(R(face.img.width), Rat(1, 2))
      faceHeight == RMul(R(face.img.height), Rat(1, 2))
  IN  << [op |-> "image", x |-> face.x, y |-> face.y,
          width |-> faceWidth, height |-> faceHeight],
         [op |-> "text", str |-> "click here", fill |-> 255, size |-> 32,
          x |-> face.x,
          y |-> RAdd(RAdd(face.y, RDiv(faceHeight, R(2))), R(30))] >>

\* the fade-in step of an Active frame: README.md lines 260-264
FadeIn(volume) ==
  IF RLt(volume, targetVolume)
  THEN constrain(RAdd(volume, fadeSpeed), R(0), targetVolume)
  ELSE volume

\* a face image of w x h pixels
FaceImage(w, h) == [width |-> w, height |-> h]

\* snapshots of the analyzer fed to the listing's sketch: quiet and loud
ListingFrames ==
  { [level |-> R(0),       bass |-> 0,   mid |-> 0,   treble |-> 0],
    [level |-> Rat(1, 2),  bass |-> 255, mid |-> 255, treble |-> 255] }

\* the listing's sketch after setup(): a painting of one cell (warm or dark)
\* under a one-pixel figure, the intro image at the centre of the canvas
InitListing ==
  /\ song = Loaded
  /\ audioStarted = FALSE
  /\ timeOffset = R(0)
  /\ frame = NoFrame
  /\ canvas = <<>>
  /\ analyzerCalls = 0
  /\ currentVolume = R(0)
  /\ \E shift \in {0, 2}, fw \in {2, 4}, u \in {<<R(0), Rat(3, 4)>>} :
       /\ SetupResult(Painting(3, 3, shift), Figure(1, 1, FALSE),
                      [i \in {1} |-> u], [i \in {1} |-> u])
       /\ guyFace = [img |-> FaceImage(fw, 2),
                     x |-> Rat(3, 2), y |-> Rat(3, 2),
                     velX |-> R(2), velY |-> Rat(3, 2)]

\* draw() of the listing: README.md lines 219-298
drawListing ==
  /\ phase = "running"
  /\ sketch = "colour"
  /\ guyFace # Absent
  /\ IF ~audioStarted
     THEN /\ guyFace' = Bounce(guyFace, baseImg.width, baseImg.height)
          /\ canvas' = IntroScreen(guyFace')
          /\ UNCHANGED <<currentVolume, sketch, phase, assets, fields, song, audioStarted, timeOffset, frame, analyzerCalls>>
     ELSE /\ analyzerCalls < 5 * MaxFrames
          /\ currentVolume' = FadeIn(currentVolume)
          /\ song' = IF RLt(currentVolume, targetVolume)
                     THEN SetVolume(song, FadeIn(currentVolume))
                     ELSE song
          /\ \E a \in ListingFrames,
                ra \in [1..Len(allDots) -> FrameOutcomes],
                rg \in [1..Len(guyDots) -> FrameOutcomes],
                v \in FrameOutcomes :
               \E f \in {Features(a)} :
               \E t \in {RAdd(timeOffset, TimeStep(f.bassAmount))} :
               \E da \in {[i \in 1..Len(allDots) |->
                            drawDotListing(allDots[i], f.energy, f.bassAmount, f.midAmount, f.trebleAmount, t, f.extremeMultiplier, ra[i][1], ra[i][2], v[1], v[2])]} :
               \E dg \in {[i \in 1..Len(guyDots) |->
                            drawGuyDotListing(guyDots[i], guyImg.width, guyImg.height, baseImg.width, baseImg.height, f.energy, f.bassAmount, f.midAmount, f.trebleAmount, t, rg[i][1], rg[i][2], v[2], v[1])]} :
                 /\ frame' = f
                 /\ timeOffset' = t
                 /\ allDots' = [i \in 1..Len(allDots) |-> da[i].p]
                 /\ guyDots' = [i \in 1..Len(guyDots) |-> dg[i].p]
                 /\ canvas' = [i \in 1..Len(allDots) |-> da[i].call]
                                \o [i \in 1..Len(guyDots) |-> dg[i].call]
          /\ analyzerCalls' = analyzerCalls + 5
          /\ UNCHANGED <<guyFace, sketch, phase, assets, sampled, audioStarted>>

\* a click that returns to the intro screen and keeps the volume reached
mousePressedListingKeepVolume ==
  /\ phase = "running"
  /\ guyFace # Absent
  /\ IF ~audioStarted
     THEN /\ audioStarted' = TRUE
          /\ song' = SetVolume(Loop(song), R(0))
     ELSE IF ~song.playing
          THEN /\ song' = Loop(song)
               /\ UNCHANGED audioStarted
          ELSE /\ audioStarted' = FALSE
               /\ song' = Stop(song)
  /\ UNCHANGED <<intro, sketch, phase, assets, fields, timeOffset, frame, canvas, analyzerCalls>>

\* mousePressed() of the listing: README.md lines 466-480
mousePressedListing ==
  /\ phase = "running"
  /\ guyFace # Absent
  /\ IF ~audioStarted
     THEN /\ audioStarted' = TRUE
          /\ song' = SetVolume(Loop(song), R(0))
          /\ UNCHANGED currentVolume
     ELSE IF ~song.playing
          THEN /\ song' = Loop(song)
               /\ UNCHANGED <<audioStarted, currentVolume>>
          ELSE /\ audioStarted' = FALSE
               /\ song' = Stop(song)
               /\ currentVolume' = R(0)
  /\ UNCHANGED <<guyFace, sketch, phase, assets, fields, timeOffset, frame, canvas, analyzerCalls>>

NextListing == drawListing \/ mousePressedListing

SpecListing == InitListing /\ [][NextListing]_vars

\* ------------------------------------------------------------------------
\* Properties
\* ------------------------------------------------------------------------

Points == Len(allDots) + Len(guyDots)

Ceil(a, b) == (a + b - 1) \div b

C2_ActiveImpliesPlaying == audioStarted => song.playing

\* C3: from Idle a mousePressed() leaves the song playing in a loop and
\* audioStarted true; a draw() tick in Active makes the five analyzer calls,
\* advances timeOffset and draws one ellipse per point, not the prompt; and a
\* draw() tick in Idle (a step that changes the canvas) leaves audioStarted
\* false.
C3_ClickStartsPipeline ==
  [][/\ (~audioStarted /\ (mousePressed \/ mousePressedMask)) =>
          (audioStarted' /\ song'.playing /\ song'.looping)
     /\ (audioStarted /\ (canvas' # canvas \/ analyzerCalls' # analyzerCalls
                            \/ timeOffset' # timeOffset \/ frame' # frame)) =>
          /\ analyzerCalls' = analyzerCalls + 5
          /\ frame' # NoFrame
          /\ RLt(timeOffset, timeOffset')
          /\ Len(canvas') = Points
          /\ \A i \in 1..Len(canvas') :
               canvas'[i].op = "ellipse" /\ canvas'[i].time = timeOffset'
     /\ (~audioStarted /\ canvas' # canvas) => ~audioStarted']_vars

\* the first draw() after the click has run the pipeline
C3_FirstActiveFrame ==
  /\ audioStarted /\ song.playing /\ song.looping
  /\ analyzerCalls = 5
  /\ frame # NoFrame
  /\ Len(canvas) = Points
  /\ canvas[1].op = "ellipse"

\* loudness levels from below 0 to above 0.2
LevelProbes == {Rat(i, 20) : i \in {-2, 0, 1, 2, 3, 4, 5, 10, 20}}

\* C4: the energy of a frame lies in [0.8, 4.0]; it is 0.8 for a level <= 0 and
\* 4.0 for a level >= 0.2; and it is monotonic: a lower level never gives a
\* higher energy (the frame's level against every probe level, whose energies
\* obey the same bounds).
C4_EnergyClamped ==
  frame # NoFrame =>
    /\ RLe(Rat(8, 10), frame.energy) /\ RLe(frame.energy, R(4))
    /\ RLe(frame.level, R(0)) => frame.energy = Rat(8, 10)
    /\ RLe(Rat(2, 10), frame.level) => frame.energy = R(4)
    /\ \A l \in LevelProbes :
         LET e == Energy(l)
         IN  /\ RLe(Rat(8, 10), e) /\ RLe(e, R(4))
             /\ RLe(l, R(0)) => e = Rat(8, 10)
             /\ RLe(Rat(2, 10), l) => e = R(4)
             /\ RLe(l, frame.level) => RLe(e, frame.energy)
             /\ RLe(frame.level, l) => RLe(frame.energy, e)

\* a frame at level 0.5 has energy exactly 4.0
C4_LoudFrame ==
  /\ frame # NoFrame
  /\ frame.level = Rat(1, 2)
  /\ frame.energy = R(4)

\* means of three band energies, as sums over 3 * 255
MeanProbes == {Rat(s, 765) : s \in {0, 255, 510, 535, 536, 537, 600, 700, 765}}

\* C5: with mean = (bass + mid + treble) / (3 * 255), the extreme multiplier
\* of a frame is 1.0 when mean <= 0.7, lies in [1.0, 2.5] always, is 2.5 when
\* the three bands are 255, and is monotonic in the mean (the frame's mean
\* against every probe mean).
C5_ExtremeMultiplierRange ==
  (sketch = "colour" /\ frame # NoFrame) =>
    LET mean == Rat(frame.bass + frame.mid + frame.treble, 3 * 255)
        em == frame.extremeMultiplier
    IN  /\ frame.totalEnergy = mean
        /\ RLe(mean, Rat(7, 10)) => em = R(1)
        /\ RLe(R(1), em) /\ RLe(em, Rat(5, 2))
        /\ (frame.bass = 255 /\ frame.mid = 255 /\ frame.treble = 255) => em = Rat(5, 2)
        /\ \A m \in MeanProbes :
             LET x == ExtremeMultiplier(m)
             IN  /\ RLe(m, Rat(7, 10)) => x = R(1)
                 /\ RLe(R(1), x) /\ RLe(x, Rat(5, 2))
                 /\ RLe(m, mean) => RLe(x, em)
                 /\ RLe(mean, m) => RLe(em, x)

\* a frame just above the threshold: bands 255, 26, 255
C5_JustAboveThreshold ==
  /\ sketch = "colour" /\ frame # NoFrame
  /\ RLt(Rat(7, 10), frame.totalEnergy)
  /\ RLt(R(1), frame.extremeMultiplier)
  /\ RLt(frame.extremeMultiplier, Rat(5, 2))

\* the point is one of the dark/figure region
IsFigure(p) == IF sketch = "colour" THEN p.colorType = "dark" ELSE p.area = "guy"

\* the bands of the summands of a displaced coordinate
Bands(pos) == {t.band : t \in pos.terms}

\* the size drawDot gives point i of allDots with midAmount replaced by mid
SizeWithMid(i, mid) ==
  IF sketch = "colour"
  THEN Motion(allDots[i], frame.energy, frame.bassAmount, mid, frame.trebleAmount).size
  ELSE drawDotMask(allDots[i], frame.energy, frame.bassAmount, mid, frame.trebleAmount, timeOffset, R(0), R(0)).size

\* C6: the ellipse of every dark/figure point of allDots is displaced on the x
\* and on the y axis by a bass term and by a treble term, by no other term,
\* and its size does not change with midAmount.
C6_FigureBassAndTreble ==
  \A i \in 1..Len(allDots) :
    (audioStarted /\ frame # NoFrame /\ IsFigure(allDots[i])) =>
      /\ Bands(canvas[i].finalX) = {"bass", "treble"}
      /\ Bands(canvas[i].finalY) = {"bass", "treble"}
      /\ \A mid \in {R(0), Rat(1, 2), R(1)} : SizeWithMid(i, mid) = canvas[i].size

ColorLabels == {"warm", "blue", "dark", "earth", "bright", "neutral"}

\* label l is the one of the first rule colour c matches
FirstMatch(c, l) ==
  /\ l \in ColorLabels
  /\ l = "warm" <=> WarmRule(c)
  /\ l = "blue" <=> (~WarmRule(c) /\ BlueRule(c))
  /\ l = "dark" <=> (~WarmRule(c) /\ ~BlueRule(c) /\ DarkRule(c))
  /\ l = "earth" <=> (~WarmRule(c) /\ ~BlueRule(c) /\ ~DarkRule(c) /\ EarthRule(c))
  /\ l = "bright" <=> (~WarmRule(c) /\ ~BlueRule(c) /\ ~DarkRule(c) /\ ~EarthRule(c)
                        /\ BrightRule(c))
  /\ l = "neutral" <=> (~WarmRule(c) /\ ~BlueRule(c) /\ ~DarkRule(c) /\ ~EarthRule(c)
                         /\ ~BrightRule(c))

ChannelProbes == {20, 70, 100, 160, 220}

\* C7: the label setup() stores with every point of allDots and guyDots, and
\* the label of every palette and probe colour, is one of the six labels and
\* is that of the first matching rule in the order warm, blue, dark, earth,
\* bright, neutral when none matches.
C7_FirstRuleWins ==
  sketch = "colour" =>
    /\ \A i \in 1..Len(allDots) : FirstMatch(allDots[i].c, allDots[i].colorType)
    /\ \A i \in 1..Len(guyDots) : FirstMatch(guyDots[i].c, guyDots[i].colorType)
    /\ \A i \in 1..Len(Palette) : FirstMatch(Palette[i], getColorType(Palette[i]))
    /\ \A r \in ChannelProbes, g \in ChannelProbes, b \in ChannelProbes :
         FirstMatch(<<r, g, b, 255>>, getColorType(<<r, g, b, 255>>))

\* a point whose colour is blue-dominant and darker than 80 is labelled blue
C7_BlueBeforeDark ==
  /\ phase = "running" /\ sketch = "colour"
  /\ \E i \in 1..Len(allDots) :
       /\ BlueRule(allDots[i].c) /\ DarkRule(allDots[i].c)
       /\ allDots[i].colorType = "blue"

AreaLabels == {"guy", "bridge", "sky", "water", "hills"}

\* mask m is brighter than t at the pixel of point p
Exceeds(m, t, p) == RLt(R(t), MaskBright(m, int(p.x), int(p.y)))

\* C8: in the mask sketch the area of every point is one of the five labels,
\* and is the first of guy, bridge, sky, water whose mask exceeds 100, 20, 120,
\* 80 at the point, hills otherwise (whether the hills mask exceeds 100 or
\* not); and every ellipse drawn has finalX, finalY and size defined.
C8_FirstMaskWins ==
  sketch = "mask" =>
    /\ \A i \in 1..Len(allDots) :
         LET p == allDots[i]
             g == Exceeds(guyMask, 100, p)
             b == Exceeds(bridgeMask, 20, p)
             s == Exceeds(skyMask, 120, p)
             w == Exceeds(waterMask, 80, p)
         IN  /\ p.area \in AreaLabels
             /\ p.area = "guy" <=> g
             /\ p.area = "bridge" <=> (~g /\ b)
             /\ p.area = "sky" <=> (~g /\ ~b /\ s)
             /\ p.area = "water" <=> (~g /\ ~b /\ ~s /\ w)
             /\ p.area = "hills" <=> (~g /\ ~b /\ ~s /\ ~w)
    /\ \A i \in 1..Len(canvas) :
         canvas[i].op = "ellipse" =>
           /\ canvas[i].finalX # Undefined
           /\ canvas[i].finalY # Undefined
           /\ canvas[i].size # Undefined

\* a point no mask claims, not even the hills mask, has been drawn as hills
C8_DefaultDrawn ==
  /\ sketch = "mask" /\ frame # NoFrame
  /\ \E i \in 1..Len(allDots) :
       /\ ~Exceeds(guyMask, 100, allDots[i]) /\ ~Exceeds(bridgeMask, 20, allDots[i])
       /\ ~Exceeds(skyMask, 120, allDots[i]) /\ ~Exceeds(waterMask, 80, allDots[i])
       /\ ~Exceeds(hillsMask, 100, allDots[i])
       /\ allDots[i].area = "hills"
       /\ canvas[i].op = "ellipse"
       /\ canvas[i].size # Undefined

\* C9: every pixel setup() reads from baseImg, and every stored position of
\* the base field, lies within [0, width - 1] x [0, height - 1].
C9_BaseFieldInBounds ==
  /\ \A xy \in sampled :
       /\ 0 <= xy[1] /\ xy[1] <= baseImg.width - 1
       /\ 0 <= xy[2] /\ xy[2] <= baseImg.height - 1
  /\ \A i \in 1..Len(allDots) :
       /\ RLe(R(0), allDots[i].x) /\ RLe(allDots[i].x, R(baseImg.width - 1))
       /\ RLe(R(0), allDots[i].y) /\ RLe(allDots[i].y, R(baseImg.height - 1))

\* a 4 x 4 image whose cell (3, 3) was jittered by (+1/2, -1) and whose cell
\* (0, 0) by (-1, +1/2): x is held at 3 and at 0
C9_EdgeCells ==
  /\ phase = "running"
  /\ baseImg.width = 4 /\ baseImg.height = 4
  /\ \E i \in 1..Len(allDots) :
       allDots[i].x = R(3) /\ allDots[i].y = R(2)
  /\ \E i \in 1..Len(allDots) :
       allDots[i].x = R(0) /\ allDots[i].y = Rat(1, 2)

\* C10: after setup() the base field has exactly ceil(W/s) * ceil(H/s) points
\* and the overlay field at most that many for its own image; for s = 3 and a
\* 300 x 200 image the grid has 100 * 67 = 6700 cells.
C10_FieldSize ==
  phase = "running" =>
    /\ Len(allDots) = Ceil(baseImg.width, spacing) * Ceil(baseImg.height, spacing)
    /\ Len(guyDots) <= Ceil(guyImg.width, guySpacing) * Ceil(guyImg.height, guySpacing)
    /\ Len(LoopValues(0, 300, 3)) = Ceil(300, 3)
    /\ Len(LoopValues(0, 200, 3)) = Ceil(200, 3)
    /\ Ceil(300, 3) * Ceil(200, 3) = 6700

\* a full base field of four points and an overlay the alpha test has thinned
C10_ThinnedOverlay ==
  /\ phase = "running" /\ sketch = "colour"
  /\ Len(allDots) = 4
  /\ Len(guyDots) = 1
  /\ guyImg.width = 4

\* what setup() stores with a point and nothing may change
Stored(p) ==
  IF sketch = "colour" THEN <<p.x, p.y, p.c, p.colorType>>
  ELSE <<p.x, p.y, p.c, p.area>>

\* new is old moved one tenth of the way to some target in [-d, d]
OneEase(old, new, d) ==
  LET target == RAdd(old, RMul(R(10), RSub(new, old)))
  IN  RLe(RNeg(d), target) /\ RLe(target, d)

\* C11: no step changes the length of allDots or guyDots, or the x, y, colour
\* or label of a stored point; a step that is not an Active draw() changes no
\* point at all; an Active draw() of the colour sketch moves each
\* currentDispersionX/Y by exactly one smoothing step towards a target within
\* the frame's dispersion amount (the overlay's from its own multiplier).
C11_PointsImmutable ==
  [][/\ Len(allDots') = Len(allDots) /\ Len(guyDots') = Len(guyDots)
     /\ \A i \in 1..Len(allDots) :
          Stored(allDots'[i]) = Stored(allDots[i]) /\ DOMAIN allDots'[i] = DOMAIN allDots[i]
     /\ \A i \in 1..Len(guyDots) :
          Stored(guyDots'[i]) = Stored(guyDots[i]) /\ DOMAIN guyDots'[i] = DOMAIN guyDots[i]
     /\ analyzerCalls' = analyzerCalls => (allDots' = allDots /\ guyDots' = guyDots)
     /\ (analyzerCalls' # analyzerCalls /\ sketch = "mask") => allDots' = allDots
     /\ (analyzerCalls' # analyzerCalls /\ sketch = "colour") =>
          LET d == DispersionAmount(frame'.extremeMultiplier)
              dg == DispersionAmount(OverlayMultiplier(DissolveAmount(frame'.trebleAmount)))
          IN  /\ \A i \in 1..Len(allDots) :
                   /\ OneEase(allDots[i].currentDispersionX, allDots'[i].currentDispersionX, d)
                   /\ OneEase(allDots[i].currentDispersionY, allDots'[i].currentDispersionY, d)
              /\ \A i \in 1..Len(guyDots) :
                   /\ OneEase(guyDots[i].currentDispersionX, guyDots'[i].currentDispersionX, dg)
                   /\ OneEase(guyDots[i].currentDispersionY, guyDots'[i].currentDispersionY, dg)]_vars

\* two Active frames have moved the displacement of a base and an overlay point
C11_DispersedTwice ==
  /\ sketch = "colour" /\ analyzerCalls = 10
  /\ allDots[1].currentDispersionX # R(0)
  /\ guyDots[1].currentDispersionY # R(0)
  /\ guyDots[1].x = R(-1)

\* C12: no step decreases timeOffset; a step that is not an Active draw()
\* leaves it alone; an Active draw() adds exactly 0.05 + 0.1 * bass / 255,
\* which lies in [0.05, 0.15], and every ellipse of the frame is resolved with
\* the advanced value. (The program has no restart: timeOffset never returns
\* to 0 once advanced.)
C12_TimeOffsetMonotonic ==
  [][/\ RLe(timeOffset, timeOffset')
     /\ analyzerCalls' = analyzerCalls => timeOffset' = timeOffset
     /\ analyzerCalls' # analyzerCalls =>
          LET step == RSub(timeOffset', timeOffset)
          IN  /\ step = RAdd(Rat(5, 100), RMul(Rat(1, 10), Rat(frame'.bass, 255)))
              /\ RLe(Rat(5, 100), step) /\ RLe(step, Rat(15, 100))
              /\ \A i \in 1..Len(canvas') : canvas'[i].time = timeOffset'
     /\ RLt(R(0), timeOffset) => RLt(R(0), timeOffset')]_vars

\* a silent frame and a frame of full bass: 0.05 + 0.15
C12_TwoSteps ==
  /\ analyzerCalls = 10
  /\ timeOffset = Rat(1, 5)
  /\ canvas[1].time = Rat(1, 5)

\* C13: once started, the volume after n Active frames is 0.01 * n, held at
\* the target 1.0: it starts at 0 with the click, rises by 0.01 per Active
\* frame, never exceeds 1.0 and stays there once reached.
C13_VolumeFadesIn ==
  audioStarted =>
    LET n == analyzerCalls \div 5
    IN  song.volume = (IF n >= 100 THEN R(1) ELSE Rat(n, 100))

BandProbes == {0, 1, 64, 127, 128, 200, 254, 255}

\* amount is the normalised value of band energy v
Normalised(v, amount) ==
  /\ amount = Rat(v, 255)
  /\ RLe(R(0), amount) /\ RLe(amount, R(1))
  /\ v = 0 => amount = R(0)
  /\ v = 255 => amount = R(1)

\* C14: in every frame bassAmount, midAmount and trebleAmount are each the
\* reading of their own band divided by 255, whatever the other two bands
\* read; each lies in [0, 1], is 0 at reading 0 and 1 at reading 255; and so
\* does the normalised value of every probe reading.
C14_BandsNormalised ==
  /\ frame # NoFrame =>
       /\ Normalised(frame.bass, frame.bassAmount)
       /\ Normalised(frame.mid, frame.midAmount)
       /\ Normalised(frame.treble, frame.trebleAmount)
  /\ \A v \in BandProbes : Normalised(v, BandAmount(R(v)))

\* a frame with bass 0, mid 255 and treble in between
C14_MixedBands ==
  /\ frame # NoFrame
  /\ frame.bass = 0 /\ frame.bassAmount = R(0)
  /\ frame.mid = 255 /\ frame.midAmount = R(1)
  /\ RLt(R(0), frame.trebleAmount) /\ RLt(frame.trebleAmount, R(1))

\* the mean of the three normalised band energies of the frame
Mean == Rat(frame.bass + frame.mid + frame.treble, 3 * 255)

\* the multiplier the overlay is due at normalised treble t: 1 up to 0.55,
\* then linear to 2.5 at 1.0
DissolveMultiplier(t) ==
  IF RLe(t, Rat(55, 100)) THEN R(1)
  ELSE RAdd(R(1), RMul(Rat(3, 2), RDiv(RSub(t, Rat(55, 100)), Rat(45, 100))))

\* C15 as stated: every point drawn in a frame, field and overlay alike, gets
\* the same multiplier, and it is 1.0 when the mean is <= 0.7.
C15_OneMultiplier ==
  (sketch = "colour" /\ frame # NoFrame) =>
    /\ \A i, j \in 1..Len(canvas) :
         canvas[i].extremeMultiplier = canvas[j].extremeMultiplier
    /\ RLe(Mean, Rat(7, 10)) =>
         \A i \in 1..Len(canvas) : canvas[i].extremeMultiplier = R(1)

\* C15 amended: every field point of a frame gets the frame's extreme
\* multiplier, which is 1.0 when the mean is <= 0.7; every overlay point gets
\* the overlay's own multiplier, a function of treble alone: 1.0 up to
\* trebleAmount 0.55, then linear to 2.5 at 1.0.
C15_FieldAndOverlayMultipliers ==
  (sketch = "colour" /\ frame # NoFrame) =>
    /\ \A i \in 1..Len(allDots) :
         /\ canvas[i].extremeMultiplier = frame.extremeMultiplier
         /\ RLe(Mean, Rat(7, 10)) => canvas[i].extremeMultiplier = R(1)
    /\ \A i \in (Len(allDots) + 1)..Len(canvas) :
         canvas[i].extremeMultiplier = DissolveMultiplier(Rat(frame.treble, 255))

\* a quiet frame (mean <= 0.7) with treble above 0.55: two field points at 1.0
\* and the overlay point above 1.0
C15_QuietButDissolving ==
  /\ sketch = "colour" /\ frame # NoFrame
  /\ RLe(Mean, Rat(7, 10))
  /\ Len(allDots) = 2 /\ Len(canvas) = 3
  /\ canvas[1].extremeMultiplier = R(1) /\ canvas[2].extremeMultiplier = R(1)
  /\ RLt(R(1), canvas[3].extremeMultiplier)

\* drawDot called with multiplier m has taken the stored displacement from
\* old to new
Smoothed(old, new, m) ==
  LET D == RMul(R(100), RSub(m, R(1)))
      target == RAdd(old, RMul(R(10), RSub(new, old)))
  IN  /\ RLe(R(0), D) /\ RLe(D, R(150))
      /\ RLe(RNeg(D), target) /\ RLe(target, D)
      /\ new = RAdd(old, RMul(Rat(1, 10), RSub(target, old)))
      /\ m = R(1) => new = RMul(Rat(9, 10), old)
      /\ (m = R(1) /\ old = R(0)) => new = R(0)

\* the points of both fields, base field first, in the order they are drawn
AllPoints == allDots \o guyDots

\* C16: before the first Active frame every stored displacement is (0, 0);
\* each drawDot call of an Active frame of the colour sketch, given multiplier
\* m, sets the stored displacement to old + 0.1 * (target - old) for a target
\* in [-D, D], with D = 100 * (m - 1): 0 at 1.0, 150 at 2.5; so at m = 1.0 the
\* displacement is multiplied by 0.9, and stays (0, 0) if it was.
C16_SmoothedDispersion ==
  [][sketch = "colour" =>
       /\ analyzerCalls = 0 =>
            \A i \in 1..Len(AllPoints) :
              /\ AllPoints[i].currentDispersionX = R(0)
              /\ AllPoints[i].currentDispersionY = R(0)
       /\ analyzerCalls' # analyzerCalls =>
            \A i \in 1..Len(AllPoints) :
              /\ Smoothed(AllPoints[i].currentDispersionX,
                          AllPoints'[i].currentDispersionX,
                          canvas'[i].extremeMultiplier)
              /\ Smoothed(AllPoints[i].currentDispersionY,
                          AllPoints'[i].currentDispersionY,
                          canvas'[i].extremeMultiplier)]_vars

\* a frame at multiplier 2.5 with target -150, then a frame at 1.0:
\* 0 -> -15 -> -13.5
C16_DecayedOnce ==
  /\ sketch = "colour" /\ analyzerCalls = 10
  /\ canvas[1].extremeMultiplier = R(1)
  /\ allDots[1].currentDispersionX = Rat(-27, 2)

\* |x - y| <= e
Near(x, y, e) == RLe(RSub(x, y), e) /\ RLe(RSub(y, x), e)

\* C17: every ellipse of a frame of the colour sketch is filled with the
\* point's base colour when trebleAmount <= 0.15; it is filled with (255, 0, 0)
\* only when trebleAmount = 1.0; and there is no step: against the fill the
\* same point gets at the next lower treble reading, no channel moves by more
\* than 3 (a linear ramp moves a channel by at most 255 / (0.85 * 255) = 1.2
\* per reading, a ramping target by about as much again).
C17_ColourShiftGradual ==
  (sketch = "colour" /\ frame # NoFrame) =>
    \A i \in 1..Len(canvas) :
      LET c == AllPoints[i].c
          below == ShiftedColor(c, Rat(frame.treble - 1, 255))
      IN  /\ RLe(frame.trebleAmount, Rat(15, 100)) =>
               canvas[i].fill = <<R(c[1]), R(c[2]), R(c[3])>>
          /\ canvas[i].fill = <<R(255), R(0), R(0)>> => frame.trebleAmount = R(1)
          /\ frame.treble > 0 =>
               \A k \in 1..3 : Near(canvas[i].fill[k], below[k], R(3))

\* p lies within img and carries the pixel of img at its truncated position
SampledInPlace(p, img) ==
  /\ RLe(R(0), p.x) /\ RLe(p.x, R(img.width - 1))
  /\ RLe(R(0), p.y) /\ RLe(p.y, R(img.height - 1))
  /\ p.c = get(img, int(p.x), int(p.y))

\* v is coordinate g of a grid cell moved by a jitter in [-step/3, step/3)
JitterOf(v, g, step) ==
  RLe(Rat(-step, 3), RSub(v, R(g))) /\ RLt(RSub(v, R(g)), Rat(step, 3))

\* C18 as stated: every point of the base field and of the overlay field lies
\* within its image and carries (and passed the alpha test with) the pixel at
\* its truncated stored position.
C18_SampledAtStoredPosition ==
  phase = "running" =>
    /\ \A i \in 1..Len(allDots) : SampledInPlace(allDots[i], baseImg)
    /\ \A i \in 1..Len(guyDots) :
         SampledInPlace(guyDots[i], guyImg) /\ alpha(guyDots[i].c) > 50

\* C18 amended: every base-field point lies within baseImg and carries the
\* pixel at its truncated stored position; every overlay point carries the
\* pixel of guyImg at a grid cell, with alpha above 50, and is stored at that
\* cell moved by a jitter in [-1, 1) per axis, unclamped.
C18_BaseInPlaceOverlayAtCell ==
  phase = "running" =>
    /\ \A i \in 1..Len(allDots) : SampledInPlace(allDots[i], baseImg)
    /\ \A i \in 1..Len(guyDots) :
         \E j \in 1..NCells(guyImg, guySpacing) :
           LET cell == Cells(guyImg.width, guyImg.height, guySpacing)[j]
           IN  /\ guyDots[i].c = get(guyImg, cell[1], cell[2])
               /\ alpha(guyDots[i].c) > 50
               /\ JitterOf(guyDots[i].x, cell[1], guySpacing)
               /\ JitterOf(guyDots[i].y, cell[2], guySpacing)

\* an overlay point stored left of the image, and one whose colour is not the
\* pixel at its stored position
C18_OverlayOffCell ==
  /\ phase = "running" /\ sketch = "colour"
  /\ \E i \in 1..Len(guyDots) : guyDots[i].x = R(-1)
  /\ \E i \in 1..Len(guyDots) :
       /\ RLe(R(0), guyDots[i].x)
       /\ guyDots[i].c # get(guyImg, int(guyDots[i].x), int(guyDots[i].y))

\* |x| <= 150
Within150(x) == RLe(R(-150), x) /\ RLe(x, R(150))

\* stored displacements up to the bound, and random() outcomes up to nearly 1
DispersionProbes == {R(-150), R(-149), R(0), Rat(299, 2), R(150)}
OutcomeProbes == {R(0), Rat(1, 2), Rat(999, 1000)}

\* C20: every stored displacement of allDots and guyDots is within [-150, 150]
\* on both axes; the multiplier of every drawDot call of a frame is within
\* [1.0, 2.5] and its dispersion amount within [0, 150]; and one more call
\* with that amount takes any displacement within the bound, the extremes
\* included, to one within the bound.
C20_DispersionBounded ==
  sketch = "colour" =>
    /\ \A i \in 1..Len(AllPoints) :
         /\ Within150(AllPoints[i].currentDispersionX)
         /\ Within150(AllPoints[i].currentDispersionY)
    /\ frame # NoFrame =>
         \A i \in 1..Len(canvas) :
           LET m == canvas[i].extremeMultiplier
               D == DispersionAmount(m)
           IN  /\ RLe(R(1), m) /\ RLe(m, Rat(5, 2))
               /\ RLe(R(0), D) /\ RLe(D, R(150))
               /\ \A old \in DispersionProbes, u \in OutcomeProbes :
                    Within150(Ease(old, random(u, RNeg(D), D)))

\* two frames at multiplier 2.5, each with target -150: 0 -> -15 -> -28.5
C20_TwoFullSteps ==
  /\ sketch = "colour" /\ analyzerCalls = 10
  /\ canvas[1].extremeMultiplier = Rat(5, 2)
  /\ allDots[1].currentDispersionX = Rat(-57, 2)

\* a click of the listing's sketch: a step that is not a frame
Click == analyzerCalls' = analyzerCalls /\ guyFace' = guyFace /\ song' # song

====
